---- MODULE Spec2Model ----
(***************************************************************************)
(* The scheduled-task engine: a registry file shared by a scheduler        *)
(* daemon (scheduler.py) and the command-line utilities create_task.py,    *)
(* cancel_task.py and run_task.py.                                         *)
(*                                                                         *)
(* Time is counted in ticks, TicksPerSecond to the second, so that the     *)
(* sub-second part of datetime.now() and its removal by                    *)
(* replace(microsecond=0) are visible.  A persisted timestamp (an ISO      *)
(* string) is the instant it denotes; Null is None / JSON null; BadTime is *)
(* a string datetime.fromisoformat rejects.                                *)
(***************************************************************************)
EXTENDS Integers, Sequences, FiniteSets, TLC

\* ------------------------------------------------------------ bounds
MaxTime == 2            \* the clock stops advancing here
TicksPerSecond == 2     \* clock resolution below one second
MaxTasks == 2           \* create_task is not called on a registry this long
MaxFnTime == 4          \* largest timestamp given to a pure function
MaxCommands == 3        \* utility commands run in all
MaxPolls == 2           \* poll cycles started in all
MaxOps == 4             \* utility commands and poll cycles started in all
DumpChunks == 2         \* pieces in which a save reaches the file
MaxMinutes == 1         \* the clock of ExecSpec stops in this minute
MaxOnce == 1            \* latest time a once task is created for
MaxCalls == 2           \* calls of execute_task followed in ExecSpec

\* ------------------------------------------------------------ values
Null == -1              \* None, for timestamps and the scheduler pid
BadTime == -2           \* a string that is no ISO timestamp
NullStatus == "null"    \* None, for lastStatus
SchedulerPid == 1       \* os.getpid() of the scheduler process

\* An expression is [val, unit]: "<val><unit>" for an interval (val = -1: not
\* an integer), the timestamp val for once, a cron expression firing every
\* val seconds (val = 0: one croniter rejects).
Expr(v, u) == [val |-> v, unit |-> u]
Schedule(t, e) == [type |-> t, expression |-> e]

\* ---------------------------------------------------- schedule engine
\* str.lower() on the unit character
Lower(u) ==
  CASE u = "S" -> "s" [] u = "M" -> "m" [] u = "H" -> "h" [] u = "D" -> "d"
    [] OTHER -> u

multipliers == [s |-> 1, m |-> 60, h |-> 3600, d |-> 86400]

\* parse_interval raises ValueError (or IndexError) exactly when this is false
ParseIntervalOk(interval_str) ==
  /\ Lower(interval_str.unit) \in DOMAIN multipliers
  /\ interval_str.val >= 0

\* parse_interval: the interval in seconds
parse_interval(interval_str) ==
  interval_str.val * multipliers[Lower(interval_str.unit)]

\* datetime.replace(microsecond=0)
TruncSecond(t) == t - (t % TicksPerSecond)

\* datetime.fromisoformat succeeds
FromIsoOk(s) == s >= 0

\* croniter(expr, now) accepts the expression
CronValid(expr) == expr.val > 0

\* croniter(expr, now).get_next(): the next firing strictly after now
CronNext(expr, t) ==
  LET p == expr.val * TicksPerSecond IN (t \div p + 1) * p

\* get_next_run_time, the cron branch (lines 105-112)
CronNextRun(expr, t, hasCroniter) ==
  IF ~hasCroniter THEN Null
  ELSE IF ~CronValid(expr) THEN Null
  ELSE CronNext(expr, t)

\* The interval branch without the collapse of an overdue run to now
IntervalNextRunOverdue(task, t) ==
  LET expr == task.schedule.expression
  IN  IF ~ParseIntervalOk(expr) THEN Null
      ELSE IF task.lastRun = Null THEN t
      ELSE IF ~FromIsoOk(task.lastRun) THEN Null
      ELSE TruncSecond(task.lastRun) + parse_interval(expr) * TicksPerSecond

\* The interval branch without replace(microsecond=0)
IntervalNextRunExact(task, t) ==
  LET expr == task.schedule.expression
  IN  IF ~ParseIntervalOk(expr) THEN Null
      ELSE IF task.lastRun = Null THEN t
      ELSE IF ~FromIsoOk(task.lastRun) THEN Null
      ELSE LET next_run == task.lastRun + parse_interval(expr) * TicksPerSecond
           IN  IF next_run <= t THEN t ELSE next_run

\* get_next_run_time, the interval branch (lines 114-129)
IntervalNextRun(task, t) ==
  LET expr == task.schedule.expression
  IN  IF ~ParseIntervalOk(expr) THEN Null
      ELSE LET interval_secs == parse_interval(expr)
               last_run == task.lastRun
           IN  IF last_run # Null
               THEN IF ~FromIsoOk(last_run) THEN Null
                    ELSE LET next_run == TruncSecond(last_run)
                                         + interval_secs * TicksPerSecond
                         IN  IF next_run <= t THEN t ELSE next_run
               ELSE t

\* The once branch with "run_time >= now"
OnceNextRunInclusive(expr, t) ==
  IF ~FromIsoOk(expr.val) THEN Null
  ELSE IF expr.val >= t THEN expr.val
  ELSE Null

\* get_next_run_time, the once branch (lines 131-138)
OnceNextRun(expr, t) ==
  IF ~FromIsoOk(expr.val) THEN Null
  ELSE IF expr.val > t THEN expr.val
  ELSE Null

\* get_next_run_time, with datetime.now() = t.  Null is None.
get_next_run_time(task, t, hasCroniter) ==
  LET stype == task.schedule.type
      expr == task.schedule.expression
  IN  IF stype = "cron" THEN CronNextRun(expr, t, hasCroniter)
      ELSE IF stype = "interval" THEN IntervalNextRun(task, t)
      ELSE IF stype = "once" THEN OnceNextRun(expr, t)
      ELSE Null

\* is_task_due with "datetime.now() > next_run"
IsTaskDueStrict(task, t) ==
  IF ~task.enabled THEN FALSE
  ELSE IF task.nextRun = Null THEN FALSE
  ELSE IF ~FromIsoOk(task.nextRun) THEN FALSE
  ELSE t > task.nextRun

\* is_task_due, with datetime.now() = t
is_task_due(task, t) ==
  IF ~task.enabled THEN FALSE
  ELSE IF task.nextRun = Null THEN FALSE
  ELSE IF ~FromIsoOk(task.nextRun) THEN FALSE
  ELSE t >= task.nextRun

\* ------------------------------------------------------------ registry
VARIABLES
  now,          \* datetime.now(), in ticks
  file,         \* .scheduled-tasks/registry.json: [exists, content]
  taskFiles,    \* the ids whose tasks/<id>.md exists
  HAS_CRONITER, \* whether croniter could be imported
  sch,          \* the scheduler process: its position and local variables
  cli,          \* the command-line utility in progress, if any
  commands,     \* the number of utility commands started so far
  polls,        \* the number of poll cycles started so far
  executed,     \* history: the ids of the once tasks the running scheduler
                \* has executed since create_task made them
  fn,           \* the last pure-function call of FnSpec, with its result
  results,      \* .scheduled-tasks/results: the result files
  ex,           \* the calls of execute_task in progress, by caller
  cancelled     \* history: the ids of the tasks that cancel_task has disabled,
                \* with no call of enable_task for them since

vars == <<now, file, taskFiles, HAS_CRONITER, sch, cli, commands, polls, executed, fn,
          results, ex, cancelled>>

EmptyRegistry == [tasks |-> <<>>, schedulerPid |-> Null]

\* The file is [exists, content, written]: it holds the first "written" of the
\* DumpChunks pieces in which json.dump(content) reaches it.
NoFile == [exists |-> FALSE, content |-> EmptyRegistry, written |-> 0]

\* load_registry: the file's content, or the empty registry without a file
load_registry == IF file.exists THEN file.content ELSE EmptyRegistry

\* ---- json.dump and json.load on a registry
\* A JSON value is [kind, ...] with kind one of null, true, false, number,
\* string, array (items) and object (members).  json.dump writes None as null,
\* a bool as true or false, an int as a number, a str as a string, a list as an
\* array and a dict as an object with its keys in their order; json.load reads
\* them back as None, bool, int, str, list and dict.
JsonNull == [kind |-> "null"]
JsonBool(b) == [kind |-> IF b THEN "true" ELSE "false"]
JsonNumber(n) == [kind |-> "number", value |-> n]
JsonString(str) == [kind |-> "string", value |-> str]

\* A field that holds None (none, in its field's representation) or a value
DumpOptional(v, none, kind) ==
  IF v = none THEN JsonNull ELSE [kind |-> kind, value |-> v]

DumpTask(task) ==
  [kind |-> "object",
   members |->
     [id |-> JsonString(task.id),
      name |-> JsonString(task.name),
      schedule |-> [kind |-> "object",
                    members |-> [type |-> JsonString(task.schedule.type),
                                 expression |-> JsonString(task.schedule.expression)]],
      taskFile |-> JsonString(task.taskFile),
      workingDir |-> JsonString(task.workingDir),
      enabled |-> JsonBool(task.enabled),
      lastRun |-> DumpOptional(task.lastRun, Null, "string"),
      lastStatus |-> DumpOptional(task.lastStatus, NullStatus, "string"),
      nextRun |-> DumpOptional(task.nextRun, Null, "string"),
      createdAt |-> JsonString(task.createdAt)]]

\* json.dump(registry, f, indent=2, ensure_ascii=False): the document written
json_dump(registry) ==
  [kind |-> "object",
   members |->
     [tasks |-> [kind |-> "array",
                 items |-> [k \in 1..Len(registry.tasks) |->
                              DumpTask(registry.tasks[k])]],
      schedulerPid |-> DumpOptional(registry.schedulerPid, Null, "number")]]

LoadOptional(j, none) == IF j.kind = "null" THEN none ELSE j.value

\* Reading every literal as True
LoadBoolAnyLiteral(j) == j.kind \in {"true", "false"}

LoadBool(j) == j.kind = "true"

LoadTask(j) ==
  [id |-> j.members.id.value,
   name |-> j.members.name.value,
   schedule |-> [type |-> j.members.schedule.members.type.value,
                 expression |-> j.members.schedule.members.expression.value],
   taskFile |-> j.members.taskFile.value,
   workingDir |-> j.members.workingDir.value,
   enabled |-> LoadBool(j.members.enabled),
   lastRun |-> LoadOptional(j.members.lastRun, Null),
   lastStatus |-> LoadOptional(j.members.lastStatus, NullStatus),
   nextRun |-> LoadOptional(j.members.nextRun, Null),
   createdAt |-> j.members.createdAt.value]

\* json.load(f) on a complete document
json_load(doc) ==
  [tasks |-> [k \in 1..Len(doc.members.tasks.items) |->
                LoadTask(doc.members.tasks.items[k])],
   schedulerPid |-> LoadOptional(doc.members.schedulerPid, Null)]

\* The registry that json.load reads from the document json.dump writes
LoadedAfterDump(registry) ==
  CHOOSE loaded \in {json_load(doc) : doc \in {json_dump(r) : r \in {registry}}} :
    TRUE

\* save_registry(registry): the file after json.dump and the close.  The
\* content is held as the registry that json.load reads from the document.
Saved(registry) ==
  [exists |-> TRUE, content |-> LoadedAfterDump(registry), written |-> DumpChunks]

\* The ids of a registry's tasks
Ids(registry) == {registry.tasks[k].id : k \in 1..Len(registry.tasks)}

\* The index of the first task with this id (what "for task in tasks: if
\* task.get('id') == task_id: ... break" stops at), 0 when there is none.
FirstIndex(tasks, task_id) ==
  IF \E i \in 1..Len(tasks) : tasks[i].id = task_id
  THEN CHOOSE i \in 1..Len(tasks) :
         /\ tasks[i].id = task_id
         /\ \A j \in 1..(i - 1) : tasks[j].id # task_id
  ELSE 0

\* The loop body without the special case of a once task
UpdatedTaskOnceRecomputed(task, success, t, hasCroniter) ==
  LET ran == [task EXCEPT !.lastRun = t,
                          !.lastStatus = IF success THEN "success" ELSE "failed"]
  IN  [ran EXCEPT !.nextRun = get_next_run_time(ran, t, hasCroniter)]

\* The loop body stamping lastRun with the whole second
UpdatedTaskWholeSecond(task, success, t, hasCroniter) ==
  LET ran == [task EXCEPT !.lastRun = TruncSecond(t),
                          !.lastStatus = IF success THEN "success" ELSE "failed"]
  IN  IF ran.schedule.type = "once"
      THEN [ran EXCEPT !.enabled = FALSE, !.nextRun = Null]
      ELSE [ran EXCEPT !.nextRun = get_next_run_time(ran, t, hasCroniter)]

\* The loop body recording the status of successful runs only
UpdatedTaskStatusOnSuccess(task, success, t, hasCroniter) ==
  LET ran == [task EXCEPT !.lastRun = t,
                          !.lastStatus = IF success THEN "success" ELSE @]
  IN  IF ran.schedule.type = "once"
      THEN [ran EXCEPT !.enabled = FALSE, !.nextRun = Null]
      ELSE [ran EXCEPT !.nextRun = get_next_run_time(ran, t, hasCroniter)]

\* The body of update_task_after_run's loop for the matching task
UpdatedTask(task, success, t, hasCroniter) ==
  LET ran == [task EXCEPT !.lastRun = t,
                          !.lastStatus = IF success THEN "success" ELSE "failed"]
  IN  IF ran.schedule.type = "once"
      THEN [ran EXCEPT !.enabled = FALSE, !.nextRun = Null]
      ELSE [ran EXCEPT !.nextRun = get_next_run_time(ran, t, hasCroniter)]

\* update_task_after_run without the test of the id: every task is updated
UpdateTaskAfterRunEveryTask(registry, task_id, success, t, hasCroniter) ==
  [registry EXCEPT
     !.tasks = [k \in 1..Len(registry.tasks) |->
                  UpdatedTask(registry.tasks[k], success, t, hasCroniter)]]

\* update_task_after_run: the registry it passes to save_registry
update_task_after_run(registry, task_id, success, t, hasCroniter) ==
  LET i == FirstIndex(registry.tasks, task_id)
  IN  IF i = 0 THEN registry
      ELSE [registry EXCEPT
              !.tasks[i] = UpdatedTask(registry.tasks[i], success, t, hasCroniter)]

\* --------------------------------------------------------- create_task.py
\* A schedule string is [colon, type, expression]: "<type>:<expression>", or
\* a string without a colon (colon = FALSE).
ScheduleStr(c, t, e) == [colon |-> c, type |-> t, expression |-> e]

\* re.match(r"^\d+[smhd]$", expr, re.IGNORECASE)
IntervalFormatOk(expr) ==
  expr.val >= 0 /\ Lower(expr.unit) \in {"s", "m", "h", "d"}

\* parse_schedule accepting a once timestamp that is not in the future
ParseScheduleOkPastOnce(schedule_str, t, hasCroniter) ==
  /\ schedule_str.colon
  /\ LET stype == schedule_str.type
         expr == schedule_str.expression
     IN  CASE stype = "cron" -> (hasCroniter => CronValid(expr))
           [] stype = "interval" -> IntervalFormatOk(expr)
           [] stype = "once" -> FromIsoOk(expr.val)
           [] OTHER -> FALSE

\* parse_schedule returns (does not raise ValueError)
ParseScheduleOk(schedule_str, t, hasCroniter) ==
  /\ schedule_str.colon
  /\ LET stype == schedule_str.type
         expr == schedule_str.expression
     IN  CASE stype = "cron" -> (hasCroniter => CronValid(expr))
           [] stype = "interval" -> IntervalFormatOk(expr)
           [] stype = "once" -> FromIsoOk(expr.val) /\ ~(expr.val <= t)
           [] OTHER -> FALSE

\* parse_schedule: the structured schedule
parse_schedule(schedule_str) ==
  Schedule(schedule_str.type, schedule_str.expression)

\* generate_task_id without the test "task_id not in existing_ids"
GenerateTaskIdFirst(registry, t) == 1

\* generate_task_id: the first of task-001 .. task-999 not in use, or an id
\* made of the current time in seconds
generate_task_id(registry, t) ==
  LET existing_ids == {registry.tasks[k].id : k \in 1..Len(registry.tasks)}
  IN  IF \E i \in 1..999 : i \notin existing_ids
      THEN CHOOSE i \in 1..999 :
             i \notin existing_ids /\ \A j \in 1..(i - 1) : j \in existing_ids
      ELSE 1000 + t \div TicksPerSecond

\* calculate_next_run with the first run of an interval task one interval
\* after now
CalculateNextRunAfterInterval(schedule, t, hasCroniter) ==
  LET stype == schedule.type
      expr == schedule.expression
  IN  IF stype = "cron"
      THEN IF hasCroniter /\ CronValid(expr) THEN CronNext(expr, t) ELSE Null
      ELSE IF stype = "interval"
      THEN t + parse_interval(expr) * TicksPerSecond
      ELSE IF stype = "once" THEN expr.val
      ELSE Null

\* calculate_next_run, with datetime.now() = t
calculate_next_run(schedule, t, hasCroniter) ==
  LET stype == schedule.type
      expr == schedule.expression
  IN  IF stype = "cron"
      THEN IF hasCroniter /\ CronValid(expr) THEN CronNext(expr, t) ELSE Null
      ELSE IF stype = "interval" THEN t
      ELSE IF stype = "once" THEN expr.val
      ELSE Null

\* The task entry create_task appends
NewTask(task_id, name, schedule, t, hasCroniter) ==
  [id |-> task_id,
   name |-> name,
   schedule |-> schedule,
   taskFile |-> task_id,
   workingDir |-> "cwd",
   enabled |-> TRUE,
   lastRun |-> Null,
   lastStatus |-> NullStatus,
   nextRun |-> calculate_next_run(schedule, t, hasCroniter),
   createdAt |-> t]

\* --------------------------------------------------------- cancel_task.py
\* tasks.pop(i)
Pop(tasks, i) == SubSeq(tasks, 1, i - 1) \o SubSeq(tasks, i + 1, Len(tasks))

\* "task['enabled'] = False; task['nextRun'] = None"
Disabled(task) == [task EXCEPT !.enabled = FALSE, !.nextRun = Null]

\* cancel_task's registry after its loop (task i found)
Cancelled(registry, i, delete) ==
  IF delete THEN [registry EXCEPT !.tasks = Pop(registry.tasks, i)]
  ELSE [registry EXCEPT !.tasks[i] = Disabled(registry.tasks[i])]

\* cancel_all_tasks's registry (tasks not empty)
CancelledAll(registry, delete) ==
  IF delete THEN [registry EXCEPT !.tasks = <<>>]
  ELSE [registry EXCEPT
          !.tasks = [k \in 1..Len(registry.tasks) |-> Disabled(registry.tasks[k])]]

\* enable_task's task after "task['enabled'] = True" and the recalculation
Enabled(task, t, hasCroniter) ==
  LET on == [task EXCEPT !.enabled = TRUE]
  IN  [on EXCEPT !.nextRun = get_next_run_time(on, t, hasCroniter)]

\* ------------------------------------------------------------ the system
\* What create_task is called with
ScheduleStrs ==
  {ScheduleStr(TRUE, "interval", Expr(1, "s")),
   ScheduleStr(TRUE, "interval", Expr(1, "x")),
   ScheduleStr(FALSE, "", Expr(1, "s")),
   ScheduleStr(TRUE, "weekly", Expr(1, "s"))}
  \cup {ScheduleStr(TRUE, "once", Expr(T, "")) : T \in 1..MaxOnce}

\* The ids the utilities are called with
TaskIds == 1..MaxTasks

\* How a backend invocation ends
Outcomes == {"exit0", "nonzero", "timeout", "notfound"}

NoTask == NewTask(0, "", Schedule("", Expr(0, "")), 0, FALSE)

\* The scheduler process when it is not running.  Two fields are history:
\* wrote is the schedulerPid of the registry the process saved last, ran the
\* post-run updates of the poll cycle in progress, in the order they were made.
SchOff ==
  [pc |-> "off", once |-> FALSE, registry |-> EmptyRegistry, tasks |-> <<>>,
   success |-> FALSE, start |-> Null, wrote |-> Null, ran |-> <<>>]

\* What a post-run update of the task with this id left in the registry
RanEntry(registry, task_id) ==
  LET i == FirstIndex(registry.tasks, task_id)
  IN  IF i = 0
      THEN [id |-> task_id, found |-> FALSE, lastRun |-> Null,
            lastStatus |-> NullStatus]
      ELSE [id |-> task_id, found |-> TRUE,
            lastRun |-> registry.tasks[i].lastRun,
            lastStatus |-> registry.tasks[i].lastStatus]

CliIdle ==
  [pc |-> "idle", registry |-> EmptyRegistry, task_id |-> 0, delete |-> FALSE,
   schedule |-> Schedule("", Expr(0, "")), success |-> FALSE]

\* No call of execute_task in progress.  A call is [pc, task_id, timestamp,
\* outcome, invoked, success, registry, notified]: timestamp is the minute in
\* the result file's name, invoked whether the backend process was started,
\* registry the caller's registry, which it passes to update_task_after_run,
\* notified what send_notification returned.
Callers == {"scheduler", "run_task"}

NoCall ==
  [pc |-> "idle", task_id |-> 0, timestamp |-> 0, outcome |-> "", invoked |-> FALSE,
   success |-> FALSE, registry |-> EmptyRegistry, notified |-> FALSE]

ExIdle == [c \in Callers |-> NoCall]

FnIdle ==
  [op |-> "none", done |-> FALSE, task |-> NoTask, now |-> 0, success |-> FALSE,
   hasCroniter |-> FALSE, now2 |-> 0, success2 |-> FALSE, result |-> 0,
   again |-> 0, schedule_str |-> ScheduleStr(FALSE, "", Expr(0, "")),
   raised |-> FALSE, registry |-> EmptyRegistry, before |-> EmptyRegistry,
   loaded |-> EmptyRegistry, task_id |-> 0]

Init ==
  /\ now = 0
  /\ file = NoFile
  /\ taskFiles = {}
  /\ HAS_CRONITER = TRUE
  /\ sch = SchOff
  /\ cli = CliIdle
  /\ commands = 0
  /\ polls = 0
  /\ executed = {}
  /\ fn = FnIdle
  /\ results = {}
  /\ ex = ExIdle
  /\ cancelled = {}

\* The clock advances
Tick ==
  /\ now < MaxTime
  /\ now' = now + 1
  /\ UNCHANGED <<file, taskFiles, HAS_CRONITER, sch, cli, commands, polls, executed, fn, results, ex, cancelled>>

\* ---- scheduler.py: run_scheduler
\* lines 268-276: the process starts and loads the registry
SchStart(once) ==
  /\ sch.pc = "off"
  /\ sch' = [SchOff EXCEPT !.pc = "boot", !.once = once, !.registry = load_registry]
  /\ executed' = {}
  /\ UNCHANGED <<now, file, taskFiles, HAS_CRONITER, cli, commands, polls, fn, results, ex, cancelled>>

\* lines 277-278: it records its pid
SchSavePid ==
  /\ sch.pc = "boot"
  /\ file' = Saved([sch.registry EXCEPT !.schedulerPid = SchedulerPid])
  /\ sch' = [sch EXCEPT !.pc = "poll", !.registry = EmptyRegistry,
                        !.wrote = SchedulerPid]
  /\ UNCHANGED <<now, taskFiles, HAS_CRONITER, cli, commands, polls, executed, fn, results, ex, cancelled>>

\* line 281: check_and_run loads the registry and starts iterating its tasks
CheckAndRunLoad ==
  /\ sch.pc = "poll"
  /\ polls < MaxPolls
  /\ commands + polls < MaxOps
  /\ polls' = polls + 1
  /\ sch' = [sch EXCEPT !.pc = "loop", !.registry = load_registry,
                        !.tasks = load_registry.tasks]
  /\ UNCHANGED <<now, file, taskFiles, HAS_CRONITER, cli, commands, executed, fn, results, ex, cancelled>>

\* lines 283-284: the next task of the list is not due
SkipTask ==
  /\ sch.pc = "loop"
  /\ sch.tasks # <<>>
  /\ ~is_task_due(Head(sch.tasks), now)
  /\ sch' = [sch EXCEPT !.tasks = Tail(sch.tasks)]
  /\ UNCHANGED <<now, file, taskFiles, HAS_CRONITER, cli, commands, polls, executed, fn, results, ex, cancelled>>

\* lines 284-288, 168-171: it is due and its task file is missing:
\* execute_task returns False at once
ExecuteMissing ==
  /\ sch.pc = "loop"
  /\ sch.tasks # <<>>
  /\ is_task_due(Head(sch.tasks), now)
  /\ Head(sch.tasks).taskFile \notin taskFiles
  /\ sch' = [sch EXCEPT !.pc = "update", !.success = FALSE, !.start = now]
  /\ executed' = IF Head(sch.tasks).schedule.type = "once"
             THEN executed \cup {Head(sch.tasks).id} ELSE executed
  /\ UNCHANGED <<now, file, taskFiles, HAS_CRONITER, cli, commands, polls, fn, results, ex, cancelled>>

\* lines 284-288, 173-194: it is due: the backend is started
ExecuteStart ==
  /\ sch.pc = "loop"
  /\ sch.tasks # <<>>
  /\ is_task_due(Head(sch.tasks), now)
  /\ Head(sch.tasks).taskFile \in taskFiles
  /\ sch' = [sch EXCEPT !.pc = "exec", !.start = now]
  /\ executed' = IF Head(sch.tasks).schedule.type = "once"
             THEN executed \cup {Head(sch.tasks).id} ELSE executed
  /\ UNCHANGED <<now, file, taskFiles, HAS_CRONITER, cli, commands, polls, fn, results, ex, cancelled>>

\* lines 188-243: the backend invocation ends and execute_task returns
ExecuteEnd(outcome) ==
  /\ sch.pc = "exec"
  /\ sch' = [sch EXCEPT !.pc = "update", !.success = (outcome = "exit0")]
  /\ UNCHANGED <<now, file, taskFiles, HAS_CRONITER, cli, commands, polls, executed, fn, results, ex, cancelled>>

\* line 289: update_task_after_run on the scheduler's registry, and its save
SchUpdate ==
  /\ sch.pc = "update"
  /\ LET registry == update_task_after_run(sch.registry, Head(sch.tasks).id,
                                           sch.success, now, HAS_CRONITER)
     IN  /\ file' = Saved(registry)
         /\ sch' = [sch EXCEPT !.pc = "reload", !.registry = registry,
                               !.wrote = registry.schedulerPid,
                               !.ran = Append(@, RanEntry(registry,
                                                          Head(sch.tasks).id))]
  /\ UNCHANGED <<now, taskFiles, HAS_CRONITER, cli, commands, polls, executed, fn, results, ex, cancelled>>

\* The reload with a cycle that ends at the first task that failed
SchReloadAbortsAfterFailure ==
  /\ sch.pc = "reload"
  /\ sch' = [sch EXCEPT !.pc = "loop", !.registry = load_registry,
                        !.tasks = IF sch.success THEN Tail(sch.tasks) ELSE <<>>,
                        !.success = FALSE, !.start = Null]
  /\ UNCHANGED <<now, file, taskFiles, HAS_CRONITER, cli, commands, polls, executed, fn, results, ex, cancelled>>

\* The reload with a loop that does not move on to the next task
SchReloadSameTask ==
  /\ sch.pc = "reload"
  /\ sch' = [sch EXCEPT !.pc = "loop", !.registry = load_registry,
                        !.tasks = IF Head(sch.tasks).schedule.type = "once"
                                  THEN Tail(sch.tasks) ELSE sch.tasks,
                        !.success = FALSE, !.start = Null]
  /\ UNCHANGED <<now, file, taskFiles, HAS_CRONITER, cli, commands, polls, executed, fn, results, ex, cancelled>>

\* line 292: the registry is loaded again; the loop goes on over the list it
\* started with
SchReload ==
  /\ sch.pc = "reload"
  /\ sch' = [sch EXCEPT !.pc = "loop", !.registry = load_registry,
                        !.tasks = Tail(sch.tasks), !.success = FALSE, !.start = Null]
  /\ UNCHANGED <<now, file, taskFiles, HAS_CRONITER, cli, commands, polls, executed, fn, results, ex, cancelled>>

\* The end of the cycle without the return of once mode
LoopEndAlwaysSleeps ==
  /\ sch.pc = "loop"
  /\ sch.tasks = <<>>
  /\ sch' = [SchOff EXCEPT !.pc = "sleep", !.wrote = sch.wrote, !.once = sch.once]
  /\ UNCHANGED <<now, file, taskFiles, HAS_CRONITER, cli, commands, polls, executed, fn, results, ex, cancelled>>

\* lines 294-297, 301-303: the list is exhausted: return in once mode, sleep
\* otherwise
LoopEnd ==
  /\ sch.pc = "loop"
  /\ sch.tasks = <<>>
  /\ sch' = IF sch.once THEN SchOff
            ELSE [SchOff EXCEPT !.pc = "sleep", !.wrote = sch.wrote]
  /\ UNCHANGED <<now, file, taskFiles, HAS_CRONITER, cli, commands, polls, executed, fn, results, ex, cancelled>>

\* line 303: time.sleep returns
Wake ==
  /\ sch.pc = "sleep"
  /\ sch' = [sch EXCEPT !.pc = "poll"]
  /\ UNCHANGED <<now, file, taskFiles, HAS_CRONITER, cli, commands, polls, executed, fn, results, ex, cancelled>>

\* lines 304-306: KeyboardInterrupt inside the try block
Interrupt ==
  /\ sch.pc \in {"poll", "loop", "exec", "update", "reload", "sleep"}
  /\ ~sch.once
  /\ sch' = [SchOff EXCEPT !.pc = "finally", !.wrote = sch.wrote]
  /\ UNCHANGED <<now, file, taskFiles, HAS_CRONITER, cli, commands, polls, executed, fn, results, ex, cancelled>>

\* line 308
FinallyLoad ==
  /\ sch.pc = "finally"
  /\ sch' = [sch EXCEPT !.pc = "finally_save", !.registry = load_registry]
  /\ UNCHANGED <<now, file, taskFiles, HAS_CRONITER, cli, commands, polls, executed, fn, results, ex, cancelled>>

\* lines 309-310
FinallySave ==
  /\ sch.pc = "finally_save"
  /\ file' = Saved([sch.registry EXCEPT !.schedulerPid = Null])
  /\ sch' = SchOff
  /\ UNCHANGED <<now, taskFiles, HAS_CRONITER, cli, commands, polls, executed, fn, results, ex, cancelled>>

\* ---- create_task.py: create_task
\* lines 214-217: the schedule is validated, then the registry is loaded
CreateLoad(schedule_str) ==
  /\ cli.pc = "idle"
  /\ commands < MaxCommands
  /\ commands + polls < MaxOps
  /\ commands' = commands + 1
  /\ ParseScheduleOk(schedule_str, now, HAS_CRONITER)
  /\ Len(load_registry.tasks) < MaxTasks
  /\ cli' = [CliIdle EXCEPT !.pc = "create", !.registry = load_registry,
                            !.schedule = parse_schedule(schedule_str)]
  /\ UNCHANGED <<now, file, taskFiles, HAS_CRONITER, sch, polls, executed, fn, results, ex, cancelled>>

\* line 214: parse_schedule raises ValueError and create_task ends there
CreateRejected(schedule_str) ==
  /\ cli.pc = "idle"
  /\ commands < MaxCommands
  /\ commands + polls < MaxOps
  /\ commands' = commands + 1
  /\ ~ParseScheduleOk(schedule_str, now, HAS_CRONITER)
  /\ cli' = CliIdle
  /\ UNCHANGED <<now, file, taskFiles, HAS_CRONITER, sch, polls, executed, fn, results, ex, cancelled>>

\* lines 220-251: the id, the task file, the entry, the save
CreateSave ==
  /\ cli.pc = "create"
  /\ LET task_id == generate_task_id(cli.registry, now)
         task == NewTask(task_id, "name", cli.schedule, now, HAS_CRONITER)
     IN  /\ taskFiles' = taskFiles \cup {task_id}
         /\ file' = Saved([cli.registry EXCEPT !.tasks = Append(@, task)])
         /\ executed' = executed \ {task_id}
         /\ cancelled' = cancelled \ {task_id}
  /\ cli' = CliIdle
  /\ UNCHANGED <<now, HAS_CRONITER, sch, commands, polls, fn, results, ex>>

\* ---- cancel_task.py: cancel_task
\* lines 41-42
CancelLoad(task_id, delete) ==
  /\ cli.pc = "idle"
  /\ commands < MaxCommands
  /\ commands + polls < MaxOps
  /\ commands' = commands + 1
  /\ cli' = [CliIdle EXCEPT !.pc = "cancel", !.registry = load_registry,
                            !.task_id = task_id, !.delete = delete]
  /\ UNCHANGED <<now, file, taskFiles, HAS_CRONITER, sch, polls, executed, fn, results, ex, cancelled>>

\* lines 44-70: the task is disabled or deleted and the registry saved
CancelSave ==
  /\ cli.pc = "cancel"
  /\ LET i == FirstIndex(cli.registry.tasks, cli.task_id)
     IN  /\ i # 0
         /\ taskFiles' = IF cli.delete
                         THEN taskFiles \ {cli.registry.tasks[i].taskFile}
                         ELSE taskFiles
         /\ file' = Saved(Cancelled(cli.registry, i, cli.delete))
  /\ cancelled' = IF cli.delete THEN cancelled \ {cli.task_id}
                  ELSE cancelled \cup {cli.task_id}
  /\ cli' = CliIdle
  /\ UNCHANGED <<now, HAS_CRONITER, sch, commands, polls, executed, fn, results, ex>>

\* lines 64-66: no task has the id: nothing is saved
CancelNotFound ==
  /\ cli.pc = "cancel"
  /\ FirstIndex(cli.registry.tasks, cli.task_id) = 0
  /\ cli' = CliIdle
  /\ UNCHANGED <<now, file, taskFiles, HAS_CRONITER, sch, commands, polls, executed, fn, results, ex, cancelled>>

\* ---- cancel_task.py: cancel_all_tasks
\* lines 75-80: with no tasks it returns without saving
CancelAllLoad(delete) ==
  /\ cli.pc = "idle"
  /\ commands < MaxCommands
  /\ commands + polls < MaxOps
  /\ commands' = commands + 1
  /\ load_registry.tasks # <<>>
  /\ cli' = [CliIdle EXCEPT !.pc = "cancel_all", !.registry = load_registry,
                            !.delete = delete]
  /\ UNCHANGED <<now, file, taskFiles, HAS_CRONITER, sch, polls, executed, fn, results, ex, cancelled>>

\* lines 82-100
CancelAllSave ==
  /\ cli.pc = "cancel_all"
  /\ taskFiles' = IF cli.delete
                  THEN taskFiles \ {cli.registry.tasks[k].taskFile :
                                      k \in 1..Len(cli.registry.tasks)}
                  ELSE taskFiles
  /\ file' = Saved(CancelledAll(cli.registry, cli.delete))
  /\ cancelled' = IF cli.delete THEN cancelled \ Ids(cli.registry) ELSE cancelled
  /\ cli' = CliIdle
  /\ UNCHANGED <<now, HAS_CRONITER, sch, commands, polls, executed, fn, results, ex>>

\* ---- cancel_task.py: enable_task
\* line 106
EnableLoad(task_id) ==
  /\ cli.pc = "idle"
  /\ commands < MaxCommands
  /\ commands + polls < MaxOps
  /\ commands' = commands + 1
  /\ cli' = [CliIdle EXCEPT !.pc = "enable", !.registry = load_registry,
                            !.task_id = task_id]
  /\ cancelled' = cancelled \ {task_id}
  /\ UNCHANGED <<now, file, taskFiles, HAS_CRONITER, sch, polls, executed, fn, results, ex>>

\* lines 108-125: the task is disabled: it is enabled, its next run computed,
\* the registry saved
EnableSave ==
  /\ cli.pc = "enable"
  /\ LET i == FirstIndex(cli.registry.tasks, cli.task_id)
     IN  /\ i # 0
         /\ ~cli.registry.tasks[i].enabled
         /\ file' = Saved([cli.registry EXCEPT
                             !.tasks[i] = Enabled(@, now, HAS_CRONITER)])
  /\ cli' = CliIdle
  /\ UNCHANGED <<now, taskFiles, HAS_CRONITER, sch, commands, polls, executed, fn, results, ex, cancelled>>

\* lines 110-112, 127-128: already enabled, or not found: nothing is saved
EnableNoop ==
  /\ cli.pc = "enable"
  /\ LET i == FirstIndex(cli.registry.tasks, cli.task_id)
     IN  IF i = 0 THEN TRUE ELSE cli.registry.tasks[i].enabled
  /\ cli' = CliIdle
  /\ UNCHANGED <<now, file, taskFiles, HAS_CRONITER, sch, commands, polls, executed, fn, results, ex, cancelled>>

\* ---- run_task.py: run_task
\* lines 51-98, scheduler.py 168-194: the task is looked up in a registry
\* loaded for that, its file exists, the backend is started
RunStart(task_id) ==
  /\ cli.pc = "idle"
  /\ commands < MaxCommands
  /\ commands + polls < MaxOps
  /\ commands' = commands + 1
  /\ LET i == FirstIndex(load_registry.tasks, task_id)
     IN  /\ i # 0
         /\ load_registry.tasks[i].taskFile \in taskFiles
         /\ cli' = [CliIdle EXCEPT !.pc = "run_exec", !.task_id = task_id]
  /\ UNCHANGED <<now, file, taskFiles, HAS_CRONITER, sch, polls, executed, fn, results, ex, cancelled>>

\* scheduler.py 188-243, run_task.py 101: the invocation ends, execute_task
\* returns, the registry is loaded
RunExecuteEnd(outcome) ==
  /\ cli.pc = "run_exec"
  /\ cli' = [cli EXCEPT !.pc = "run_update", !.success = (outcome = "exit0"),
                        !.registry = load_registry]
  /\ UNCHANGED <<now, file, taskFiles, HAS_CRONITER, sch, commands, polls, executed, fn, results, ex, cancelled>>

\* run_task.py 102: update_task_after_run and its save
RunUpdate ==
  /\ cli.pc = "run_update"
  /\ file' = Saved(update_task_after_run(cli.registry, cli.task_id, cli.success,
                                         now, HAS_CRONITER))
  /\ cli' = CliIdle
  /\ UNCHANGED <<now, taskFiles, HAS_CRONITER, sch, commands, polls, executed, fn, results, ex, cancelled>>

SchedulerStep ==
  \/ \E once \in BOOLEAN : SchStart(once)
  \/ SchSavePid
  \/ CheckAndRunLoad
  \/ SkipTask
  \/ ExecuteMissing
  \/ ExecuteStart
  \/ \E outcome \in Outcomes : ExecuteEnd(outcome)
  \/ SchUpdate
  \/ SchReload
  \/ LoopEnd
  \/ Wake
  \/ Interrupt
  \/ FinallyLoad
  \/ FinallySave

UtilityStep ==
  \/ \E schedule_str \in ScheduleStrs : CreateLoad(schedule_str)
  \/ \E schedule_str \in ScheduleStrs : CreateRejected(schedule_str)
  \/ CreateSave
  \/ \E task_id \in TaskIds, delete \in BOOLEAN : CancelLoad(task_id, delete)
  \/ CancelSave
  \/ CancelNotFound
  \/ \E delete \in BOOLEAN : CancelAllLoad(delete)
  \/ CancelAllSave
  \/ \E task_id \in TaskIds : EnableLoad(task_id)
  \/ EnableSave
  \/ EnableNoop
  \/ \E task_id \in TaskIds : RunStart(task_id)
  \/ \E outcome \in Outcomes : RunExecuteEnd(outcome)
  \/ RunUpdate

Next == Tick \/ SchedulerStep \/ UtilityStep

Spec == Init /\ [][Next]_vars

\* ------------------------------------------------- the pure functions
FnTimes == 0..MaxFnTime

\* What a timestamp field may hold
FnStamps == FnTimes \cup {Null, BadTime}

FnSchedules ==
  {Schedule("interval", Expr(v, u)) : v \in {-1, 0, 1, 2}, u \in {"s", "S", "x"}}
  \cup {Schedule("interval", Expr(1, "m"))}
  \cup {Schedule("once", Expr(T, "")) : T \in FnTimes \cup {BadTime}}
  \cup {Schedule("cron", Expr(v, "")) : v \in 0..2}
  \cup {Schedule("weekly", Expr(1, "s"))}

FnTasks ==
  {[NoTask EXCEPT !.id = 1, !.schedule = s, !.enabled = e, !.lastRun = l,
                  !.nextRun = n] :
     s \in FnSchedules, e \in BOOLEAN, l \in FnStamps, n \in FnStamps}

\* The schedule strings create_task is given
FnScheduleStrs ==
  {ScheduleStr(c, s.type, s.expression) : c \in BOOLEAN, s \in FnSchedules}

\* The registries save_registry is given: up to two tasks, as create_task
\* made them, cancel_task disabled them or update_task_after_run left them,
\* with or without the pid of a scheduler
FnSavedTasks(task_id) ==
  LET made == {NewTask(task_id, "name", sc, 0, TRUE) :
                 sc \in {Schedule("interval", Expr(1, "s")),
                         Schedule("once", Expr(1, ""))}}
  IN  made \cup {Disabled(task) : task \in made}
           \cup {UpdatedTask(task, success, 1, TRUE) :
                   task \in made, success \in BOOLEAN}

FnSavedRegistries ==
  {[tasks |-> tasks, schedulerPid |-> pid] :
     tasks \in {<<>>}
                \cup {<<t1>> : t1 \in FnSavedTasks(1)}
                \cup {<<t1, t2>> : t1 \in FnSavedTasks(1), t2 \in FnSavedTasks(2)},
     pid \in {Null, SchedulerPid}}

\* A call about to be made: the function and its arguments
FnCall(op, task, t, success, hasCroniter, t2, success2) ==
  [FnIdle EXCEPT !.op = op, !.task = task, !.now = t, !.success = success,
                 !.hasCroniter = hasCroniter, !.now2 = t2, !.success2 = success2]

\* The calls made: every function on every argument of the bounded sets
FnCalls ==
  \/ \E task \in FnTasks, t \in FnTimes :
       fn = FnCall("is_task_due", task, t, FALSE, FALSE, 0, FALSE)
  \/ \E task \in FnTasks, t \in FnTimes, hasCroniter \in BOOLEAN :
       fn = FnCall("get_next_run_time", task, t, FALSE, hasCroniter, 0, FALSE)
  \/ \E task \in FnTasks, t \in FnTimes, success \in BOOLEAN,
        t2 \in {MaxFnTime - 1, MaxFnTime}, success2 \in BOOLEAN :
       /\ task.lastRun \in {Null, 0}
       /\ task.nextRun \in {Null, 0, MaxFnTime}
       /\ fn = FnCall("update_task_after_run", task, t, success, TRUE, t2,
                      success2)
  \/ \E schedule_str \in FnScheduleStrs, t \in FnTimes, hasCroniter \in BOOLEAN,
        t2 \in FnTimes :
       /\ t2 >= t
       /\ fn = [FnCall("create_task", NoTask, t, FALSE, hasCroniter, t2, FALSE)
                 EXCEPT !.schedule_str = schedule_str]
  \/ \E registry \in FnSavedRegistries :
       fn = [FnCall("save_registry", NoTask, 0, FALSE, FALSE, 0, FALSE)
               EXCEPT !.registry = registry]
  \/ \E registry \in FnSavedRegistries, task_id \in 1..(MaxTasks + 1),
        t \in {2, MaxFnTime}, success \in BOOLEAN :
       fn = [FnCall("update_registry", NoTask, t, success, TRUE, 0, FALSE)
               EXCEPT !.registry = registry, !.task_id = task_id]

\* The registry create_task is applied to, when there is one: task-001, made
\* at time 0
FnRegistry ==
  [tasks |-> <<NewTask(1, "name", Schedule("interval", Expr(1, "s")), 0, TRUE)>>,
   schedulerPid |-> Null]

FnInit ==
  /\ now = 0
  /\ HAS_CRONITER = TRUE
  /\ sch = SchOff
  /\ cli = CliIdle
  /\ commands = 0
  /\ polls = 0
  /\ executed = {}
  /\ results = {}
  /\ ex = ExIdle
  /\ cancelled = {}
  /\ FnCalls
  /\ \/ file = NoFile /\ taskFiles = {}
     \/ fn.op \in {"create_task", "save_registry", "update_registry"}
        /\ file = Saved(FnRegistry) /\ taskFiles = {1}

FnIsTaskDue ==
  /\ fn.op = "is_task_due" /\ ~fn.done
  /\ fn' = [fn EXCEPT !.done = TRUE, !.result = is_task_due(fn.task, fn.now)]
  /\ UNCHANGED <<now, file, taskFiles, HAS_CRONITER, sch, cli, commands, polls,
                 executed, results, ex, cancelled>>

FnGetNextRunTime ==
  /\ fn.op = "get_next_run_time" /\ ~fn.done
  /\ fn' = [fn EXCEPT !.done = TRUE,
                      !.result = get_next_run_time(fn.task, fn.now, fn.hasCroniter)]
  /\ UNCHANGED <<now, file, taskFiles, HAS_CRONITER, sch, cli, commands, polls,
                 executed, results, ex, cancelled>>

\* update_task_after_run on a registry holding the task, and once more, later,
\* on the registry it saved
FnUpdateTaskAfterRun ==
  /\ fn.op = "update_task_after_run" /\ ~fn.done
  /\ LET registry == [tasks |-> <<fn.task>>, schedulerPid |-> Null]
         saved == update_task_after_run(registry, fn.task.id, fn.success,
                                        fn.now, fn.hasCroniter)
     IN  fn' = [fn EXCEPT
                  !.done = TRUE,
                  !.result = saved,
                  !.again = update_task_after_run(saved, fn.task.id, fn.success2,
                                                  fn.now2, fn.hasCroniter)]
  /\ UNCHANGED <<now, file, taskFiles, HAS_CRONITER, sch, cli, commands, polls,
                 executed, results, ex, cancelled>>

\* create_task as a whole (lines 208-253), with datetime.now() = fn.now in
\* parse_schedule (line 214) and datetime.now() = fn.now2, the same time or a
\* later one, from there on (calculate_next_run at line 232, createdAt)
FnCreateTask ==
  /\ fn.op = "create_task" /\ ~fn.done
  /\ IF ~ParseScheduleOk(fn.schedule_str, fn.now, fn.hasCroniter)
     THEN /\ fn' = [fn EXCEPT !.done = TRUE, !.raised = TRUE]
          /\ UNCHANGED <<file, taskFiles>>
     ELSE LET registry == load_registry
              task_id == generate_task_id(registry, fn.now2)
              task == NewTask(task_id, "name", parse_schedule(fn.schedule_str),
                              fn.now2, fn.hasCroniter)
          IN  /\ taskFiles' = taskFiles \cup {task_id}
              /\ file' = Saved([registry EXCEPT !.tasks = Append(@, task)])
              /\ fn' = [fn EXCEPT !.done = TRUE, !.result = task]
  /\ UNCHANGED <<now, HAS_CRONITER, sch, cli, commands, polls, executed, results, ex, cancelled>>

\* load_registry, save_registry(fn.registry), load_registry
FnSaveLoad ==
  /\ fn.op = "save_registry" /\ ~fn.done
  /\ file' = Saved(fn.registry)
  /\ fn' = [fn EXCEPT !.done = TRUE, !.before = load_registry,
                      !.loaded = load_registry']
  /\ UNCHANGED <<now, taskFiles, HAS_CRONITER, sch, cli, commands, polls, executed,
                 results, ex, cancelled>>

\* update_task_after_run(fn.registry, fn.task_id, fn.success) with its save,
\* on a registry of several tasks
FnUpdateRegistry ==
  /\ fn.op = "update_registry" /\ ~fn.done
  /\ file' = Saved(update_task_after_run(fn.registry, fn.task_id, fn.success,
                                         fn.now, fn.hasCroniter))
  /\ fn' = [fn EXCEPT !.done = TRUE, !.loaded = load_registry']
  /\ UNCHANGED <<now, taskFiles, HAS_CRONITER, sch, cli, commands, polls, executed,
                 results, ex, cancelled>>

FnNext ==
  \/ FnIsTaskDue
  \/ FnGetNextRunTime
  \/ FnUpdateTaskAfterRun
  \/ FnCreateTask
  \/ FnSaveLoad
  \/ FnUpdateRegistry

FnSpec == FnInit /\ [][FnNext]_vars

\* ------------------------------------------------------------ properties
\* The interval of a task, in ticks
IntervalTicks(task) == parse_interval(task.schedule.expression) * TicksPerSecond

\* C2: is_task_due(task) at time now is true exactly when the task is enabled,
\* its nextRun is set and now >= nextRun; it is false for a disabled task and
\* for a task without nextRun, whatever the timestamps.
C2_IsTaskDueIff ==
  (fn.op = "is_task_due" /\ fn.done /\ fn.task.nextRun # BadTime)
  => /\ fn.result = (/\ fn.task.enabled
                     /\ fn.task.nextRun # Null
                     /\ fn.now >= fn.task.nextRun)
     /\ (~fn.task.enabled \/ fn.task.nextRun = Null) => fn.result = FALSE

\* An enabled task is found due at the very instant of its nextRun.
C2_Witness ==
  /\ fn.op = "is_task_due" /\ fn.done
  /\ fn.task.enabled /\ fn.task.nextRun = fn.now
  /\ fn.result = TRUE

\* C4: update_task_after_run on a once task leaves enabled = false and
\* nextRun = null after a success and after a failure, and applying it again to
\* the saved registry leaves both as they are.
C4_OnceUpdateDisables ==
  (fn.op = "update_task_after_run" /\ fn.done /\ fn.task.schedule.type = "once")
  => /\ fn.result.tasks[1].enabled = FALSE
     /\ fn.result.tasks[1].nextRun = Null
     /\ fn.again.tasks[1].enabled = fn.result.tasks[1].enabled
     /\ fn.again.tasks[1].nextRun = fn.result.tasks[1].nextRun

\* A failed run of an enabled once task whose time is still ahead, then a
\* second update that reports success.
C4_Witness ==
  /\ fn.op = "update_task_after_run" /\ fn.done
  /\ fn.task.schedule.type = "once" /\ fn.task.schedule.expression.val > fn.now2
  /\ fn.task.enabled /\ ~fn.success /\ fn.success2
  /\ fn.result.tasks[1].lastStatus = "failed"
  /\ ~fn.again.tasks[1].enabled

Tasks == load_registry.tasks

\* The scheduler's steps, as seen in the position it moves from and to
Examines == sch.pc = "loop" /\ sch.tasks # <<>> /\ sch' # sch /\ sch'.pc # "finally"
Executes == Examines /\ sch'.pc \in {"exec", "update"}
SchUpdates == sch.pc = "update" /\ sch'.pc = "reload"
RunUpdates == cli.pc = "run_update" /\ cli'.pc = "idle"

\* The index, in the registry the scheduler updates, of the task it has run
SchUpdated == FirstIndex(sch.registry.tasks, Head(sch.tasks).id)

\* C1: in every persisted registry, a task with enabled = false has
\* nextRun = null.
C1_DisabledHasNoNextRun ==
  \A k \in 1..Len(Tasks) : ~Tasks[k].enabled => Tasks[k].nextRun = Null

\* C3: a scheduler does not execute a once task before its time T, and it
\* does not execute a once task that it has executed already since it started.
C3_OnceExecutedOnce ==
  [][(Executes /\ Head(sch.tasks).schedule.type = "once")
     => /\ now >= Head(sch.tasks).schedule.expression.val
        /\ Head(sch.tasks).id \notin executed]_vars

C9_TasksStay ==
  [][\A id \in Ids(load_registry) :
       \/ id \in Ids(file'.content)
       \/ /\ cli.delete /\ cli'.pc = "idle"
          /\ \/ cli.pc = "cancel" /\ cli.task_id = id
             \/ cli.pc = "cancel_all"]_vars

\* C10: when execute_task returns in the poll cycle, the registry that
\* update_task_after_run is about to mutate and save holds every task that
\* create_task saved during the execution.
C10_UpdateSeesWritesDuringRun ==
  [][(sch.pc = "exec" /\ sch'.pc = "update")
     => \A k \in 1..Len(Tasks) :
          Tasks[k].createdAt > sch.start => Tasks[k].id \in Ids(sch'.registry)]_vars

\* The scheduler process ends: run_scheduler returns
SchExits == sch.pc # "off" /\ sch'.pc = "off"

\* A save of the running scheduler: its pid at startup, a post-run update
SchSaves ==
  \/ sch.pc = "boot" /\ sch'.pc = "poll"
  \/ SchUpdates

\* C11: when a scheduler process exits, by an interrupt in continuous mode or
\* after its single poll in once mode, the registry it saved last has
\* schedulerPid null; every registry it saves while it runs has its own pid.
C11_PidClearedOnExit ==
  [][/\ SchExits
        => (IF sch.pc = "finally_save" THEN file'.content.schedulerPid
            ELSE sch.wrote) = Null
     /\ SchSaves => file'.content.schedulerPid = SchedulerPid]_vars

\* A step of the scheduler process other than an interrupt
SchSteps == sch' # sch /\ sch'.pc # "finally"

\* C12: a failed execution does not stop the poll cycle: the scheduler saves
\* the task (if the registry still has it) with lastStatus = failed and a
\* recomputed nextRun (none for a once task, a time not before the update
\* otherwise), goes on with the rest of the cycle's list, and executes every
\* task of that list it finds due.
C12_FailureContained ==
  [][/\ (sch.pc = "update" /\ ~sch.success /\ SchSteps) => SchUpdates
     /\ (SchUpdates /\ ~sch.success /\ SchUpdated # 0)
        => LET task == file'.content.tasks[SchUpdated]
           IN  /\ task.lastStatus = "failed"
               /\ task.lastRun = now
               /\ IF task.schedule.type = "once" THEN task.nextRun = Null
                  ELSE task.nextRun # Null /\ task.nextRun >= now
     /\ (sch.pc = "reload" /\ SchSteps)
        => sch'.pc = "loop" /\ sch'.tasks = Tail(sch.tasks)
     /\ (Examines /\ is_task_due(Head(sch.tasks), now)) => Executes]_vars

\* A task is being executed in a poll cycle in which an earlier task failed.
C12_Witness ==
  /\ sch.pc = "exec"
  /\ Len(sch.ran) = 1
  /\ sch.ran[1].found /\ sch.ran[1].lastStatus = "failed"
  /\ Head(sch.tasks).id # sch.ran[1].id

\* ------------------------------------- the save and the load, step by step
\* IoSpec follows save_registry through its steps, open(path, "w") and the
\* writes of json.dump, next to a continuous scheduler that has nothing due.

\* A task that cancel_task has disabled
IoTask(i) ==
  Disabled(NewTask(i, "name", Schedule("interval", Expr(1, "s")), 0, TRUE))

\* The registries saved
IoRegistries ==
  {[tasks |-> [k \in 1..n |-> IoTask(k)], schedulerPid |-> p] :
     n \in 0..MaxTasks, p \in {Null, SchedulerPid}}

\* json.load(f) in load_registry returns: it raises JSONDecodeError on a file
\* that holds less than a whole registry
JsonLoadOk == file.exists => file.written = DumpChunks

\* A scheduler in its loop, after its startup save
IoInit ==
  /\ now = 0
  /\ \E registry \in IoRegistries :
       /\ registry.schedulerPid = SchedulerPid
       /\ file = Saved(registry)
  /\ taskFiles = {}
  /\ HAS_CRONITER = TRUE
  /\ sch = [SchOff EXCEPT !.pc = "poll", !.wrote = SchedulerPid]
  /\ cli = CliIdle
  /\ commands = 0
  /\ polls = 0
  /\ executed = {}
  /\ fn = FnIdle
  /\ results = {}
  /\ ex = ExIdle
  /\ cancelled = {}

\* save_registry, line 62: open(registry_path, "w") truncates the file
IoSaveOpen(registry) ==
  /\ cli.pc = "idle"
  /\ sch.pc # "finally_write"
  /\ cli' = [CliIdle EXCEPT !.pc = "save", !.registry = registry]
  /\ file' = [exists |-> TRUE, content |-> registry, written |-> 0]
  /\ UNCHANGED <<now, taskFiles, HAS_CRONITER, sch, commands, polls, executed, fn,
                 results, ex, cancelled>>

\* save_registry, line 63: the next piece of json.dump reaches the file; after
\* the last one the file is closed
IoSaveWrite ==
  /\ cli.pc = "save"
  /\ file' = [file EXCEPT !.written = @ + 1]
  /\ cli' = IF file.written + 1 = DumpChunks THEN CliIdle ELSE cli
  /\ UNCHANGED <<now, taskFiles, HAS_CRONITER, sch, commands, polls, executed, fn,
                 results, ex, cancelled>>

\* The saving process is interrupted between two writes
IoSaveInterrupted ==
  /\ cli.pc = "save"
  /\ cli' = CliIdle
  /\ UNCHANGED <<now, file, taskFiles, HAS_CRONITER, sch, commands, polls, executed,
                 fn, results, ex, cancelled>>

\* lines 299-303, 280-292: check_and_run loads the registry, finds nothing due,
\* and the loop goes to sleep
IoCheckAndRun ==
  /\ sch.pc = "poll"
  /\ JsonLoadOk
  /\ \A k \in 1..Len(load_registry.tasks) : ~is_task_due(load_registry.tasks[k], now)
  /\ sch' = [sch EXCEPT !.pc = "sleep"]
  /\ UNCHANGED <<now, file, taskFiles, HAS_CRONITER, cli, commands, polls, executed,
                 fn, results, ex, cancelled>>

\* lines 281, 54, 304-306: load_registry raises JSONDecodeError, which
\* "except KeyboardInterrupt" does not catch: the finally block is entered
IoCheckAndRunRaises ==
  /\ sch.pc = "poll"
  /\ ~JsonLoadOk
  /\ sch' = [sch EXCEPT !.pc = "finally"]
  /\ UNCHANGED <<now, file, taskFiles, HAS_CRONITER, cli, commands, polls, executed,
                 fn, results, ex, cancelled>>

\* line 303: time.sleep returns
IoWake ==
  /\ sch.pc = "sleep"
  /\ sch' = [sch EXCEPT !.pc = "poll"]
  /\ UNCHANGED <<now, file, taskFiles, HAS_CRONITER, cli, commands, polls, executed,
                 fn, results, ex, cancelled>>

\* lines 303-306: KeyboardInterrupt during the sleep
IoInterrupt ==
  /\ sch.pc = "sleep"
  /\ sch' = [sch EXCEPT !.pc = "finally"]
  /\ UNCHANGED <<now, file, taskFiles, HAS_CRONITER, cli, commands, polls, executed,
                 fn, results, ex, cancelled>>

\* line 308
IoFinallyLoad ==
  /\ sch.pc = "finally"
  /\ JsonLoadOk
  /\ sch' = [sch EXCEPT !.pc = "finally_save", !.registry = load_registry]
  /\ UNCHANGED <<now, file, taskFiles, HAS_CRONITER, cli, commands, polls, executed,
                 fn, results, ex, cancelled>>

\* line 308: load_registry raises inside the finally block: the process ends
IoFinallyLoadRaises ==
  /\ sch.pc = "finally"
  /\ ~JsonLoadOk
  /\ sch' = SchOff
  /\ UNCHANGED <<now, file, taskFiles, HAS_CRONITER, cli, commands, polls, executed,
                 fn, results, ex, cancelled>>

\* lines 309-310, 62: the scheduler's own save opens the file (while no other
\* save is in progress: writes of two processes at once are left out)
IoFinallyOpen ==
  /\ sch.pc = "finally_save"
  /\ cli.pc = "idle"
  /\ file' = [exists |-> TRUE,
              content |-> [sch.registry EXCEPT !.schedulerPid = Null],
              written |-> 0]
  /\ sch' = [sch EXCEPT !.pc = "finally_write"]
  /\ UNCHANGED <<now, taskFiles, HAS_CRONITER, cli, commands, polls, executed, fn,
                 results, ex, cancelled>>

\* lines 310, 63: its writes; after the last one the process ends
IoFinallyWrite ==
  /\ sch.pc = "finally_write"
  /\ file' = [file EXCEPT !.written = @ + 1]
  /\ sch' = IF file.written + 1 = DumpChunks THEN SchOff ELSE sch
  /\ UNCHANGED <<now, taskFiles, HAS_CRONITER, cli, commands, polls, executed, fn,
                 results, ex, cancelled>>

IoNext ==
  \/ \E registry \in IoRegistries : IoSaveOpen(registry)
  \/ IoSaveWrite
  \/ IoSaveInterrupted
  \/ IoCheckAndRun
  \/ IoCheckAndRunRaises
  \/ IoWake
  \/ IoInterrupt
  \/ IoFinallyLoad
  \/ IoFinallyLoadRaises
  \/ IoFinallyOpen
  \/ IoFinallyWrite

IoSpec == IoInit /\ [][IoNext]_vars

\* C13: a poll cycle of the continuous scheduler that cannot read the registry
\* is abandoned and the loop goes on: its next step is the sleep before the
\* next poll.
C13_LoopSurvivesUnreadableRegistry ==
  [][(sch.pc = "poll" /\ ~JsonLoadOk /\ sch' # sch) => sch'.pc = "sleep"]_vars

\* C14: whatever the point a save has reached or was interrupted at, the
\* registry file holds a complete registry, never an empty or partial one.
C14_SaveIsAtomic == file.exists => file.written = DumpChunks

\* --------------------------------------------- execute_task and its results
\* ExecSpec follows the calls of execute_task by the scheduler's poll cycle
\* and by run_task, with the result files they write and the post-run update.
TicksPerMinute == 60 * TicksPerSecond

\* datetime.now().strftime("%Y-%m-%d_%H-%M"), line 181
ResultTimestamp(t) == t \div TicksPerMinute

\* execute_task returning True after a timeout as well
ReportsSuccessAlsoOnTimeout(outcome) == outcome \in {"exit0", "timeout"}

\* execute_task's return value, by the way the invocation ended (lines 217-243)
ReportsSuccess(outcome) == outcome = "exit0"

\* execute_task returning False when the notification was not sent
ExecuteTaskReturnsIfNotified(outcome, notified) ==
  ReportsSuccess(outcome) /\ notified

\* What execute_task returns (lines 168-171, 217-243) when the invocation ended
\* in this way and send_notification, whose result it does not look at and
\* which raises no exception (notify.py 24-33), returned notified
ExecuteTaskReturns(outcome, notified) == ReportsSuccess(outcome)

\* subprocess.run started the backend: it did not raise FileNotFoundError
BackendInvoked(outcome) == outcome \in {"exit0", "nonzero", "timeout"}

\* subprocess.run returned, so that lines 196-213 write the result file,
\* before any notification is sent
WritesResult(outcome) == outcome \in {"exit0", "nonzero"}

\* The content of a result file, under its name <task_id>_<timestamp>.md
ResultFile(task_id, timestamp, t, outcome) ==
  [task_id |-> task_id, timestamp |-> timestamp, executedAt |-> t,
   status |-> IF outcome = "exit0" THEN "Success" ELSE "Failed"]

\* open(result_file, "w") and the write: a file of that name is replaced
WriteResult(files, new) ==
  {f \in files : f.task_id # new.task_id \/ f.timestamp # new.timestamp}
  \cup {new}

\* Tasks that create_task made at time 0, with or without their task files
ExInit ==
  /\ now = 0
  /\ file = Saved([tasks |-> [k \in 1..MaxTasks |->
                                NewTask(k, "name",
                                        Schedule("interval", Expr(1, "s")), 0, TRUE)],
                   schedulerPid |-> Null])
  /\ taskFiles \in SUBSET TaskIds
  /\ HAS_CRONITER = TRUE
  /\ sch = SchOff
  /\ cli = CliIdle
  /\ commands = 0
  /\ polls = 0
  /\ executed = {}
  /\ fn = FnIdle
  /\ results = {}
  /\ ex = ExIdle
  /\ cancelled = {}

\* The clock advances within the minute
ExTick ==
  /\ now % TicksPerMinute < MaxTime
  /\ now' = now + 1
  /\ UNCHANGED <<file, taskFiles, HAS_CRONITER, sch, cli, commands, polls, executed,
                 fn, results, ex, cancelled>>

\* The clock reaches the next minute
ExNextMinute ==
  /\ now \div TicksPerMinute < MaxMinutes
  /\ now' = (now \div TicksPerMinute + 1) * TicksPerMinute
  /\ UNCHANGED <<file, taskFiles, HAS_CRONITER, sch, cli, commands, polls, executed,
                 fn, results, ex, cancelled>>

\* scheduler.py 281-287, 168-171: the poll cycle finds the task due and calls
\* execute_task, which finds no task file and returns False
ExMissing(task_id, notified) ==
  /\ ex["scheduler"].pc = "idle"
  /\ commands < MaxCalls
  /\ commands' = commands + 1
  /\ LET i == FirstIndex(load_registry.tasks, task_id)
     IN  /\ i # 0
         /\ is_task_due(load_registry.tasks[i], now)
         /\ load_registry.tasks[i].taskFile \notin taskFiles
  /\ ex' = [ex EXCEPT !["scheduler"] =
              [NoCall EXCEPT !.pc = "returned", !.task_id = task_id,
                             !.outcome = "missing", !.registry = load_registry,
                             !.notified = notified,
                             !.success = ExecuteTaskReturns("missing", notified)]]
  /\ UNCHANGED <<now, file, taskFiles, HAS_CRONITER, sch, cli, polls, executed, fn,
                 results, cancelled>>

\* scheduler.py 281-287 or run_task.py 51-98, then scheduler.py 173-194: the
\* caller calls execute_task, which names its result file and starts the
\* backend
ExStart(c, task_id) ==
  /\ ex[c].pc = "idle"
  /\ commands < MaxCalls
  /\ commands' = commands + 1
  /\ LET i == FirstIndex(load_registry.tasks, task_id)
     IN  /\ i # 0
         /\ c = "scheduler" => is_task_due(load_registry.tasks[i], now)
         /\ load_registry.tasks[i].taskFile \in taskFiles
  /\ ex' = [ex EXCEPT ![c] =
              [NoCall EXCEPT !.pc = "running", !.task_id = task_id,
                             !.timestamp = ResultTimestamp(now),
                             !.registry = IF c = "scheduler" THEN load_registry
                                          ELSE EmptyRegistry]]
  /\ UNCHANGED <<now, file, taskFiles, HAS_CRONITER, sch, cli, polls, executed, fn,
                 results, cancelled>>

\* scheduler.py 188-243: the invocation ends, the result file is written if
\* subprocess.run returned, execute_task returns; run_task.py 101: run_task
\* loads the registry
ExEnd(c, outcome, notified) ==
  /\ ex[c].pc = "running"
  /\ results' = IF WritesResult(outcome)
                THEN WriteResult(results,
                                 ResultFile(ex[c].task_id, ex[c].timestamp, now,
                                            outcome))
                ELSE results
  /\ ex' = [ex EXCEPT ![c] =
              [@ EXCEPT !.pc = "returned", !.outcome = outcome,
                        !.invoked = BackendInvoked(outcome),
                        !.success = ExecuteTaskReturns(outcome, notified),
                        !.notified = notified,
                        !.registry = IF c = "run_task" THEN load_registry ELSE @]]
  /\ UNCHANGED <<now, file, taskFiles, HAS_CRONITER, sch, cli, commands, polls,
                 executed, fn, cancelled>>

\* scheduler.py 289 or run_task.py 102: update_task_after_run and its save
ExUpdate(c) ==
  /\ ex[c].pc = "returned"
  /\ file' = Saved(update_task_after_run(ex[c].registry, ex[c].task_id,
                                         ex[c].success, now, HAS_CRONITER))
  /\ ex' = [ex EXCEPT ![c] = NoCall]
  /\ UNCHANGED <<now, taskFiles, HAS_CRONITER, sch, cli, commands, polls, executed,
                 fn, results, cancelled>>

ExNext ==
  \/ ExTick
  \/ ExNextMinute
  \/ \E task_id \in TaskIds, notified \in BOOLEAN : ExMissing(task_id, notified)
  \/ \E c \in Callers, task_id \in TaskIds : ExStart(c, task_id)
  \/ \E c \in Callers, outcome \in Outcomes, notified \in BOOLEAN :
       ExEnd(c, outcome, notified)
  \/ \E c \in Callers : ExUpdate(c)

ExecSpec == ExInit /\ [][ExNext]_vars

\* C15: a result file that an execution has written is there, with the same
\* content, after every later step.
C15_ResultsAppendOnly == [][results \subseteq results']_vars

\* A call of execute_task that has returned
Returned(c) == ex[c].pc = "returned"

Malformed(colon, schedule, t) ==
  \/ ~colon
  \/ schedule.type \notin {"cron", "interval", "once"}
  \/ /\ schedule.type = "interval"
     /\ \/ schedule.expression.val < 0
        \/ schedule.expression.unit \notin {"s", "m", "h", "d", "S", "M", "H", "D"}
  \/ /\ schedule.type = "once"
     /\ schedule.expression.val = BadTime \/ schedule.expression.val <= t

C17_IdsDistinct ==
  \A j, k \in 1..Len(Tasks) : j # k => Tasks[j].id # Tasks[k].id

\* The registry holds two tasks, the first of which has run.
C17_Witness ==
  /\ Len(Tasks) = 2
  /\ Tasks[1].lastRun # Null
  /\ Tasks[1].id # Tasks[2].id

\* The positions of the scheduler inside a poll cycle
InCycle(pc) == pc \in {"loop", "exec", "update", "reload"}

\* The ids of the tasks whose post-run update the cycle in progress has made
RanIds == {sch.ran[k].id : k \in 1..Len(sch.ran)}

\* C18: a scheduler process starts an execution only when none is in progress;
\* a poll cycle goes through the tasks of the registry it loaded in their
\* order, dropping each from the front of its list once it is done with it,
\* and the task it executes is the first of that list and none it has executed
\* earlier in the cycle.
C18_SerialInOrderOnce ==
  [][/\ (sch.pc = "poll" /\ sch'.pc = "loop")
        => sch'.tasks = Tasks /\ sch'.ran = <<>>
     /\ (InCycle(sch.pc) /\ InCycle(sch'.pc) /\ sch' # sch)
        => \/ sch'.tasks = sch.tasks /\ sch.pc # "reload"
           \/ sch'.tasks = Tail(sch.tasks) /\ sch.pc \in {"loop", "reload"}
     /\ (sch'.pc = "exec" /\ sch.pc # "exec") => sch.pc = "loop"
     /\ Executes
        => /\ Head(sch.tasks).id \notin RanIds
           /\ \A k \in 2..Len(sch.tasks) : sch.tasks[k].id # Head(sch.tasks).id]_vars

\* The second execution of a poll cycle has returned.
C18_Witness ==
  /\ sch.pc = "update"
  /\ Len(sch.ran) = 1
  /\ sch.ran[1].id # Head(sch.tasks).id

\* C19: when the scheduler starts to execute a task, the persisted registry
\* holds, for every task whose post-run update the cycle has made and that is
\* still in the registry, that update or a later one: a lastRun not older than
\* the one the scheduler saved, with the lastStatus it saved if the lastRun is
\* that one.
C19_EarlierUpdatesPersisted ==
  [][Executes
     => \A k \in 1..Len(sch.ran) :
          LET i == FirstIndex(Tasks, sch.ran[k].id)
          IN  (sch.ran[k].found /\ i # 0)
              => /\ Tasks[i].lastRun # Null
                 /\ Tasks[i].lastRun >= sch.ran[k].lastRun
                 /\ Tasks[i].lastRun = sch.ran[k].lastRun
                    => Tasks[i].lastStatus = sch.ran[k].lastStatus]_vars

\* C21: a continuous scheduler that has started to execute a task goes on to
\* the return of execute_task, and from there to the post-run update and its
\* save: it does not leave the poll cycle from an execution or from an update
\* that is still to be made.
C21_InterruptBetweenCycles ==
  [][/\ (~sch.once /\ sch.pc = "exec" /\ sch' # sch) => sch'.pc = "update"
     /\ (~sch.once /\ sch.pc = "update" /\ sch' # sch) => SchUpdates]_vars

\* ------------------------------------------------------------ progress
\* The steps a scheduler process takes by itself once it has started: each
\* statement of run_scheduler that it has reached returns, the backend
\* invocations included, which end by exit or by the timeout of 300 seconds
\* (line 193), and time.sleep returns.  An interrupt is not among them.
SchProgress ==
  \/ SchSavePid
  \/ CheckAndRunLoad
  \/ SkipTask
  \/ ExecuteMissing
  \/ ExecuteStart
  \/ \E outcome \in Outcomes : ExecuteEnd(outcome)
  \/ SchUpdate
  \/ SchReload
  \/ LoopEnd
  \/ Wake
  \/ FinallyLoad
  \/ FinallySave

\* LiveSpec is a scheduler process by itself, with no other process writing the
\* registry.  The registry holds tasks that create_task made at time 0, some of
\* them disabled by cancel_task since, with or without their task files.
LiveSchedules ==
  {Schedule("interval", Expr(1, "s")), Schedule("once", Expr(MaxOnce, ""))}

LiveTasks(task_id) ==
  LET made == {NewTask(task_id, "name", s, 0, TRUE) : s \in LiveSchedules}
  IN  made \cup {Disabled(task) : task \in made}

LiveRegistries ==
  {[tasks |-> tasks, schedulerPid |-> Null] :
     tasks \in {<<>>}
                \cup {<<t1>> : t1 \in LiveTasks(1)}
                \cup {<<t1, t2>> : t1 \in LiveTasks(1), t2 \in LiveTasks(2)}}

LiveInit ==
  /\ now = 0
  /\ \E registry \in LiveRegistries : file = Saved(registry)
  /\ taskFiles \in SUBSET TaskIds
  /\ HAS_CRONITER = TRUE
  /\ sch = SchOff
  /\ cli = CliIdle
  /\ commands = 0
  /\ polls = 0
  /\ executed = {}
  /\ fn = FnIdle
  /\ results = {}
  /\ ex = ExIdle
  /\ cancelled = {}

LiveNext == Tick \/ SchedulerStep

LiveSpec == LiveInit /\ [][LiveNext]_vars /\ WF_vars(SchProgress)

\* C22: a scheduler in once mode starts a poll cycle only as the first thing
\* after its startup write, never sleeps, returns when the cycle has gone
\* through its list, and a cycle it has started does end with the return.
C22_OnceOneCycle ==
  /\ [][/\ (sch'.once /\ sch'.pc = "poll" /\ sch.pc # "poll") => sch.pc = "boot"
        /\ (sch.once /\ sch.pc = "loop" /\ sch' # sch)
           => IF sch.tasks = <<>> THEN sch' = SchOff ELSE InCycle(sch'.pc)
        /\ (sch.once /\ sch.pc # "off" /\ sch' # sch)
           => sch'.pc \notin {"sleep", "boot"} /\ (sch'.pc # "off" => sch'.once)]_vars
  /\ (sch.once /\ InCycle(sch.pc)) ~> (sch.pc = "off")

\* A scheduler in once mode has executed a task and is at the end of its cycle.
C22_Witness ==
  /\ sch.once
  /\ sch.pc = "loop"
  /\ sch.tasks = <<>>
  /\ Len(sch.ran) = 1

\* The persisted task with this id is enabled and its nextRun has arrived
DuePersisted(task_id) ==
  LET i == FirstIndex(Tasks, task_id)
  IN  IF i = 0 THEN FALSE
      ELSE /\ Tasks[i].enabled
           /\ Tasks[i].nextRun \notin {Null, BadTime}
           /\ Tasks[i].nextRun <= now

\* A continuous scheduler that has not been interrupted
SchRuns ==
  ~sch.once /\ sch.pc \in {"poll", "loop", "exec", "update", "reload", "sleep"}

\* C27: with the scheduler as the only writer of the registry, a poll cycle
\* goes through all the tasks of the registry it loads and executes each one
\* that is enabled with a nextRun that has arrived when it comes to it; and a
\* task that is enabled in the persisted registry with a nextRun that has
\* arrived, while a continuous scheduler runs that has a poll cycle to come, is
\* executed, unless the scheduler is interrupted first.
C27_DueTaskExecuted ==
  /\ [][/\ (sch.pc = "poll" /\ sch'.pc = "loop") => sch'.tasks = Tasks
        /\ (/\ Examines
            /\ Head(sch.tasks).enabled
            /\ Head(sch.tasks).nextRun \notin {Null, BadTime}
            /\ Head(sch.tasks).nextRun <= now) => Executes]_vars
  /\ \A task_id \in TaskIds :
       (SchRuns /\ polls < MaxPolls /\ DuePersisted(task_id))
       ~> \/ sch.pc \in {"exec", "update"} /\ Head(sch.tasks).id = task_id
          \/ ~SchRuns

\* The continuous scheduler executes, in its second poll cycle, a task that was
\* not yet due in the first.
C27_Witness ==
  /\ SchRuns
  /\ polls = 2
  /\ sch.pc = "exec"
  /\ Head(sch.tasks).schedule.type = "once"
  /\ sch.ran = <<>>

C24_NotificationIndependent ==
  [][\A c \in Callers :
       /\ (~Returned(c) /\ Returned(c)')
          => /\ ex'[c].success = (ex'[c].outcome = "exit0")
             /\ results' = IF ex'[c].outcome \in {"exit0", "nonzero"}
                           THEN WriteResult(results,
                                            ResultFile(ex'[c].task_id,
                                                       ex'[c].timestamp, now,
                                                       ex'[c].outcome))
                           ELSE results
       /\ (Returned(c) /\ ex'[c].pc = "idle")
          => file' = Saved(update_task_after_run(ex[c].registry, ex[c].task_id,
                                                 ex[c].outcome = "exit0", now,
                                                 HAS_CRONITER))]_vars

\* Two calls have returned after backend invocations that ended in the same
\* way, one with the notification sent and one without.
C24_Witness ==
  /\ Returned("scheduler") /\ Returned("run_task")
  /\ ex["scheduler"].outcome = "exit0" /\ ex["run_task"].outcome = "exit0"
  /\ ex["scheduler"].notified /\ ~ex["run_task"].notified
  /\ ex["scheduler"].success /\ ex["run_task"].success

\* C25: when a backend invocation has ended, by exit with any status, by the
\* timeout or because the backend is missing, and execute_task returns, the
\* results hold exactly one record of that task under the timestamp of the
\* execution, written by it.
C25_OneResultPerExecution ==
  [][\A c \in Callers :
       (ex[c].pc = "running" /\ Returned(c)')
       => LET written == {f \in results' : /\ f.task_id = ex[c].task_id
                                           /\ f.timestamp = ex[c].timestamp}
          IN  /\ Cardinality(written) = 1
              /\ \A f \in written : f.executedAt = now]_vars

\* C26: the registry that update_task_after_run(registry, task_id, success)
\* saves has the tasks of the one it was given, in their order, and its
\* schedulerPid; every task but the one with that id is the same; that one
\* keeps its id, name, schedule, taskFile, workingDir and createdAt, and its
\* enabled flag unless it is a once task; and when no task has the id the
\* registry saved is the one given.
C26_UpdateFrame ==
  (fn.op = "update_registry" /\ fn.done)
  => LET given == fn.registry
         saved == load_registry
         i == FirstIndex(given.tasks, fn.task_id)
     IN  /\ saved = fn.loaded
         /\ saved.schedulerPid = given.schedulerPid
         /\ Len(saved.tasks) = Len(given.tasks)
         /\ \A k \in 1..Len(given.tasks) :
              IF k # i THEN saved.tasks[k] = given.tasks[k]
              ELSE /\ saved.tasks[k].id = given.tasks[k].id
                   /\ saved.tasks[k].name = given.tasks[k].name
                   /\ saved.tasks[k].schedule = given.tasks[k].schedule
                   /\ saved.tasks[k].taskFile = given.tasks[k].taskFile
                   /\ saved.tasks[k].workingDir = given.tasks[k].workingDir
                   /\ saved.tasks[k].createdAt = given.tasks[k].createdAt
                   /\ given.tasks[k].schedule.type # "once"
                      => saved.tasks[k].enabled = given.tasks[k].enabled
         /\ i = 0 => saved = given

\* The second of two tasks has been updated in a registry that holds a
\* scheduler's pid and whose first task had run before.
C26_Witness ==
  /\ fn.op = "update_registry" /\ fn.done
  /\ Len(fn.registry.tasks) = 2
  /\ fn.task_id = 2
  /\ fn.registry.schedulerPid = SchedulerPid
  /\ fn.registry.tasks[1].lastStatus = "success"
  /\ fn.loaded.tasks[2].lastRun = fn.now
  /\ fn.loaded # fn.registry

\* C28: after cancel_task has disabled a task and until enable_task is called
\* for it, the scheduler starts no execution of it, and every step of a
\* scheduler inside a poll cycle leaves it, if the persisted registry holds it,
\* disabled and with nextRun null.
C28_CancelHolds ==
  [][/\ Executes => Head(sch.tasks).id \notin cancelled
     /\ (InCycle(sch.pc) /\ sch' # sch)
        => \A task_id \in cancelled :
             LET i == FirstIndex(load_registry'.tasks, task_id)
             IN  i # 0 => /\ ~load_registry'.tasks[i].enabled
                          /\ load_registry'.tasks[i].nextRun = Null]_vars

\* C29: while a continuous scheduler is between its startup write and its
\* shutdown, the schedulerPid of the persisted registry is its process id.
C29_PidWhileRunning ==
  SchRuns => load_registry.schedulerPid = SchedulerPid

\* C30: in the persisted registry every task has lastRun null exactly when its
\* lastStatus is null, and a lastStatus that is not null is success or failed.
C30_LastRunIffLastStatus ==
  \A k \in 1..Len(Tasks) :
    /\ (Tasks[k].lastRun = Null) <=> (Tasks[k].lastStatus = NullStatus)
    /\ Tasks[k].lastStatus \in {NullStatus, "success", "failed"}

\* The persisted registry holds a task whose last run failed and one that has
\* never run.
C30_Witness ==
  /\ Len(Tasks) = 2
  /\ Tasks[1].lastStatus = "failed" /\ Tasks[1].lastRun # Null
  /\ Tasks[2].lastStatus = NullStatus /\ Tasks[2].lastRun = Null

\* create_task has stored a task: fn.result, with its nextRun computed by
\* calculate_next_run at fn.now2
Created == fn.op = "create_task" /\ fn.done /\ ~fn.raised

====
